---- MODULE Spec2Model ----
(***************************************************************************)
(* Model of ezdxf.path.Path (src/src/ezdxf/path/path.py): a start vertex   *)
(* and an ordered list of LineTo / Curve3To / Curve4To commands, with its  *)
(* construction, mutation, orientation and sampling operations.            *)
(*                                                                         *)
(* Points are Vec3 values <<x, y, z>> on an integer grid whose unit is     *)
(* 1e-9 drawing units, so the tolerance 1e-9 of the connectivity tests is  *)
(* one grid step.                                                          *)
(***************************************************************************)
EXTENDS Integers, Sequences, FiniteSets, TLC

\* ------------------------------------------------------------------ bounds
\* A mutation is started only on a Path holding fewer commands than this.
MaxCmds == 2
\* The same, where Paths are built command by command to be reversed.
MaxLen == 3
\* The same, where Paths are built command by command to be sampled.
MaxSampled == 2
\* Longest list of Bezier curves handed to add_curves3 / add_curves4.
MaxCurves == 2
\* Largest segment count handed to approximate / flattening.
MaxSegments == 2
\* Longest vertex list handed to from_vertices.
MaxVertices == 3
\* The same, where Paths are built to be traversed.
MaxWalked == 1
\* Most traversals of the Path alive at once.
MaxTraversals == 2
\* Longest vertex list handed to add_2d_polyline on a new Path.
MaxPoints == 3
\* Most tags after the head tag of the first LINE entity of a DXF stream.
MaxBody == 4
\* The same, where a Path an operation returned is kept beside the Path; the
\* returned Path is appended to while it holds no more commands than this.
MaxOwned == 1

\* ------------------------------------------------------------------ Vec3
NULLVEC == <<0, 0, 0>>

Abs(n) == IF n < 0 THEN -n ELSE n

\* Vec3.isclose(other, abs_tol): every axis within the tolerance.
isclose(a, b, abs_tol) ==
    \A i \in 1..3 : Abs(a[i] - b[i]) <= abs_tol

\* The default abs_tol of Vec3.isclose, in grid units.
DEFAULT_ABS_TOL == 1

\* abs_tol=1e-9 of the running-end test in add_curves3 / add_curves4.
ABS_TOL == 1

\* Points the operations are called with: two within tolerance, one far.
Points == {<<0, 0, 0>>, <<1, 0, 0>>, <<3, 0, 0>>}
CtrlA == <<3, 3, 0>>
CtrlB == <<0, 3, 0>>

\* ------------------------------------------------------------------ commands
LineTo(end_) == [type |-> "LINE_TO", end |-> end_]
Curve3To(end_, ctrl_) == [type |-> "CURVE3_TO", end |-> end_, ctrl |-> ctrl_]
Curve4To(end_, ctrl1_, ctrl2_) ==
    [type |-> "CURVE4_TO", end |-> end_, ctrl1 |-> ctrl1_, ctrl2 |-> ctrl2_]

\* ------------------------------------------------------------------ Path
\* Path.__init__
Path(start_) == [start |-> start_, commands |-> <<>>]

\* Path.__len__
len(p) == Len(p.commands)

\* The setter without its guard.
set_start_unguarded(p, location) ==
    [path |-> [p EXCEPT !.start = location], raised |-> FALSE]

\* Path.start setter: [path, raised]
set_start(p, location) ==
    IF len(p) # 0
    THEN [path |-> p, raised |-> TRUE]
    ELSE [path |-> [p EXCEPT !.start = location], raised |-> FALSE]

\* end taken from the first command instead of the last.
end_of_first(p) ==
    IF p.commands # <<>> THEN p.commands[1].end ELSE p.start

\* Path.end
end(p) ==
    IF p.commands # <<>> THEN p.commands[Len(p.commands)].end ELSE p.start

\* Path.is_closed
is_closed(p) == isclose(p.start, end(p), DEFAULT_ABS_TOL)

\* line_to appending a command of the external kind START_PATH.
line_to_start_path(p, location) ==
    [p EXCEPT !.commands =
        Append(@, [type |-> "START_PATH", end |-> location])]

\* Path.line_to
line_to(p, location) ==
    [p EXCEPT !.commands = Append(@, LineTo(location))]

\* Path.curve3_to
curve3_to(p, location, ctrl) ==
    [p EXCEPT !.commands = Append(@, Curve3To(location, ctrl))]

\* Path.curve4_to
curve4_to(p, location, ctrl1, ctrl2) ==
    [p EXCEPT !.commands = Append(@, Curve4To(location, ctrl1, ctrl2))]

\* Vec3(vertex): a 2D vertex gets z = 0.
Vec3(v) == IF Len(v) = 2 THEN <<v[1], v[2], 0>> ELSE v

\* Vec3.list
Vec3_list(vertices) == [i \in 1..Len(vertices) |-> Vec3(vertices[i])]

\* close without the is_closed test.
close_always(p) == line_to(p, p.start)

\* Path.close
close(p) == IF ~is_closed(p) THEN line_to(p, p.start) ELSE p

\* the for-loop of Path.from_vertices
RECURSIVE from_vertices_loop(_, _)
from_vertices_loop(path_, vertices) ==
    IF vertices = <<>> THEN path_
    ELSE from_vertices_loop(line_to(path_, Head(vertices)), Tail(vertices))

\* from_vertices with a line to every vertex, the first one included.
from_vertices_all(vertices_, close_) ==
    LET vertices == Vec3_list(vertices_)
    IN IF Len(vertices) < 2 THEN Path(NULLVEC)
       ELSE LET path_ == from_vertices_loop(Path(vertices[1]), vertices)
            IN IF close_ THEN close(path_) ELSE path_

\* Path.from_vertices
from_vertices(vertices_, close_) ==
    LET vertices == Vec3_list(vertices_)
    IN IF Len(vertices) < 2 THEN Path(NULLVEC)
       ELSE LET path_ == from_vertices_loop(Path(vertices[1]),
                                            Tail(vertices))
            IN IF close_ THEN close(path_) ELSE path_

\* The loop of reversed with ctrl1 and ctrl2 of a Curve4To kept in place.
RECURSIVE reversed_loop_unswapped(_, _, _)
reversed_loop_unswapped(self, path_, index) ==
    IF index < 1 THEN path_
    ELSE LET cmd == self.commands[index]
             prev_end == IF index > 1 THEN self.commands[index - 1].end
                         ELSE self.start
             next_ == CASE cmd.type = "LINE_TO" -> line_to(path_, prev_end)
                        [] cmd.type = "CURVE3_TO" ->
                             curve3_to(path_, prev_end, cmd.ctrl)
                        [] cmd.type = "CURVE4_TO" ->
                             curve4_to(path_, prev_end, cmd.ctrl1, cmd.ctrl2)
                        [] OTHER -> path_
         IN reversed_loop_unswapped(self, next_, index - 1)

\* Path.reversed: the loop runs index = len-1 down to 0.
RECURSIVE reversed_loop(_, _, _)
reversed_loop(self, path_, index) ==
    IF index < 1 THEN path_
    ELSE LET cmd == self.commands[index]
             prev_end == IF index > 1 THEN self.commands[index - 1].end
                         ELSE self.start
             next_ == CASE cmd.type = "LINE_TO" -> line_to(path_, prev_end)
                        [] cmd.type = "CURVE3_TO" ->
                             curve3_to(path_, prev_end, cmd.ctrl)
                        [] cmd.type = "CURVE4_TO" ->
                             curve4_to(path_, prev_end, cmd.ctrl2, cmd.ctrl1)
                        [] OTHER -> path_
         IN reversed_loop(self, next_, index - 1)

reversed(self) ==
    IF len(self) = 0 THEN Path(NULLVEC)
    ELSE reversed_loop(self, Path(end(self)), len(self))

\* Path.__copy__ / clone
clone(self) == [start |-> self.start, commands |-> self.commands]

\* Path.control_vertices
RECURSIVE control_vertices_loop(_)
control_vertices_loop(cmds) ==
    IF cmds = <<>> THEN <<>>
    ELSE LET cmd == Head(cmds)
             pts == CASE cmd.type = "LINE_TO" -> <<cmd.end>>
                      [] cmd.type = "CURVE3_TO" -> <<cmd.ctrl, cmd.end>>
                      [] cmd.type = "CURVE4_TO" ->
                           <<cmd.ctrl1, cmd.ctrl2, cmd.end>>
                      [] OTHER -> <<>>
         IN pts \o control_vertices_loop(Tail(cmds))

control_vertices(self) ==
    IF len(self) # 0 THEN <<self.start>> \o control_vertices_loop(self.commands)
    ELSE <<>>

\* ezdxf.math.has_clockwise_orientation: twice the signed area of the polygon
\* of the vertices projected to 2D (closed back to the first vertex); negative
\* area is clockwise.
RECURSIVE SignedArea2(_, _)
SignedArea2(vertices, i) ==
    IF i > Len(vertices) THEN 0
    ELSE LET p1 == vertices[i]
             p2 == vertices[IF i = Len(vertices) THEN 1 ELSE i + 1]
         IN (p1[1] * p2[2] - p2[1] * p1[2]) + SignedArea2(vertices, i + 1)

math_has_clockwise_orientation(vertices) == SignedArea2(vertices, 1) < 0

\* Path.has_clockwise_orientation
has_clockwise_orientation(self) ==
    math_has_clockwise_orientation(control_vertices(self))

\* clockwise with its two branches exchanged.
clockwise_swapped(self) ==
    IF has_clockwise_orientation(self) THEN reversed(self) ELSE clone(self)

\* Path.clockwise
clockwise(self) ==
    IF has_clockwise_orientation(self) THEN clone(self) ELSE reversed(self)

\* Path.counter_clockwise
counter_clockwise(self) ==
    IF has_clockwise_orientation(self) THEN reversed(self) ELSE clone(self)

\* ------------------------------------------------------------------ curves
\* A Bezier3P / Bezier4P is the sequence of its control points.
Reverse(s) == [i \in 1..Len(s) |-> s[Len(s) + 1 - i]]

\* AnyBezier.reverse
bezier_reverse(c) == Reverse(c)

\* The list order reversed, each curve left as it is.
reverse_list_only(curves) == Reverse(curves)

\* _reverse_bezier_curves
_reverse_bezier_curves(curves) ==
    Reverse([i \in 1..Len(curves) |-> bezier_reverse(curves[i])])

\* The loop of add_curves4 without the connecting line.
RECURSIVE add_curves4_loop_no_line(_, _)
add_curves4_loop_no_line(self, curves) ==
    IF curves = <<>> THEN self
    ELSE LET curve == Head(curves)
         IN add_curves4_loop_no_line(
                curve4_to(self, curve[4], curve[2], curve[3]), Tail(curves))

\* the for-loop of Path.add_curves4
RECURSIVE add_curves4_loop(_, _)
add_curves4_loop(self, curves) ==
    IF curves = <<>> THEN self
    ELSE LET curve == Head(curves)
             start_ == curve[1]
             ctrl1 == curve[2]
             ctrl2 == curve[3]
             end_ == curve[4]
             joined == IF ~isclose(start_, end(self), ABS_TOL)
                       THEN line_to(self, start_) ELSE self
         IN add_curves4_loop(curve4_to(joined, end_, ctrl1, ctrl2),
                             Tail(curves))

\* Path.add_curves4
add_curves4(self, curves) ==
    IF Len(curves) = 0 THEN self
    ELSE LET end_ == curves[Len(curves)][4]
             ordered == IF isclose(end(self), end_, DEFAULT_ABS_TOL)
                        THEN _reverse_bezier_curves(curves) ELSE curves
         IN add_curves4_loop(self, ordered)

\* the for-loop of Path.add_curves3
RECURSIVE add_curves3_loop(_, _)
add_curves3_loop(self, curves) ==
    IF curves = <<>> THEN self
    ELSE LET curve == Head(curves)
             start_ == curve[1]
             ctrl == curve[2]
             end_ == curve[3]
             joined == IF ~isclose(start_, end(self), ABS_TOL)
                       THEN line_to(self, start_) ELSE self
         IN add_curves3_loop(curve3_to(joined, end_, ctrl), Tail(curves))

\* Path.add_curves3
add_curves3(self, curves) ==
    IF Len(curves) = 0 THEN self
    ELSE LET end_ == curves[Len(curves)][3]
             ordered == IF isclose(end(self), end_, DEFAULT_ABS_TOL)
                        THEN _reverse_bezier_curves(curves) ELSE curves
         IN add_curves3_loop(self, ordered)

\* Curve lists the callers pass: every curve runs between two of ChainPoints,
\* which are equal to, within tolerance of, or far from a Path end in Points.
ChainPoints == {<<0, 0, 0>>, <<3, 0, 0>>}
Beziers4 == {<<s, CtrlA, CtrlB, e>> : s \in ChainPoints, e \in ChainPoints}
Beziers3 == {<<s, CtrlA, e>> : s \in ChainPoints, e \in ChainPoints}

SeqsUpTo(S, n) == UNION {[1..k -> S] : k \in 0..n}

\* ------------------------------------------------------------------ polyline
\* OCS: whether it transforms at all, and OCS.to_wcs.  OCS_FLIP is the frame
\* of extrusion (0, 0, -1): Ax = (-1, 0, 0), Ay = (0, 1, 0), Az = (0, 0, -1).
OCS_Z == [transform |-> FALSE]
OCS_FLIP == [transform |-> TRUE]

ocs_to_wcs(ocs, p) == IF ocs.transform THEN <<-p[1], p[2], -p[3]>> ELSE p

\* Vec3.replace(z=...)
replace_z(p, z) == <<p[1], p[2], z>>

\* LineTo.to_wcs / Curve3To.to_wcs / Curve4To.to_wcs
cmd_to_wcs(cmd, ocs, elevation) ==
    CASE cmd.type = "LINE_TO" ->
           LineTo(ocs_to_wcs(ocs, replace_z(cmd.end, elevation)))
      [] cmd.type = "CURVE3_TO" ->
           Curve3To(ocs_to_wcs(ocs, replace_z(cmd.end, elevation)),
                    ocs_to_wcs(ocs, replace_z(cmd.ctrl, elevation)))
      [] cmd.type = "CURVE4_TO" ->
           Curve4To(ocs_to_wcs(ocs, replace_z(cmd.end, elevation)),
                    ocs_to_wcs(ocs, replace_z(cmd.ctrl1, elevation)),
                    ocs_to_wcs(ocs, replace_z(cmd.ctrl2, elevation)))

\* Path._to_wcs
_to_wcs(self, ocs, elevation) ==
    [start |-> ocs_to_wcs(ocs, replace_z(self.start, elevation)),
     commands |-> [i \in 1..Len(self.commands) |->
                     cmd_to_wcs(self.commands[i], ocs, elevation)]]

\* Bulges are in units of 1e-7.  |bulge| < 1e-6 is taken as 0.
BULGE_MIN == 10
\* tan(pi/8): the bulge of a quarter circle, the most one cubic Bezier spans.
BULGE_QUARTER == 4142135

\* bulge_to_arc, ConstructionEllipse.from_arc and cubic_bezier_from_ellipse:
\* the counter-clockwise arc as cubic Bezier curves.  It runs from p1 to p2
\* for a positive bulge and from p2 to p1 for a negative one, in one curve up
\* to a quarter circle and in two curves beyond.
arc_curves(p1, p2, bulge) ==
    LET a == IF bulge > 0 THEN p1 ELSE p2
        b == IF bulge > 0 THEN p2 ELSE p1
        apex == <<a[1] + b[1], 3, 0>>
    IN IF Abs(bulge) <= BULGE_QUARTER
       THEN << <<a, CtrlA, CtrlB, b>> >>
       ELSE << <<a, CtrlA, CtrlA, apex>>, <<apex, CtrlB, CtrlB, b>> >>

\* bulge_to, the local function of Path.add_2d_polyline
bulge_to(self, p1, p2, bulge) ==
    IF isclose(p1, p2, DEFAULT_ABS_TOL) THEN self
    ELSE LET curves == arc_curves(p1, p2, bulge)
             cp0 == curves[1][1]
             ordered == IF isclose(cp0, p2, DEFAULT_ABS_TOL)
                        THEN _reverse_bezier_curves(curves) ELSE curves
         IN add_curves4(self, ordered)

\* prev_point = None
None == <<>>

\* The loop of add_2d_polyline with every bulge taken as it is given.
RECURSIVE add_2d_polyline_loop_raw_bulge(_, _, _, _)
add_2d_polyline_loop_raw_bulge(self, points, prev_point, prev_bulge) ==
    IF points = <<>> THEN [self |-> self, prev_bulge |-> prev_bulge]
    ELSE LET bulge == Head(points)[3]
             point == <<Head(points)[1], Head(points)[2], 0>>
         IN IF prev_point = None
            THEN add_2d_polyline_loop_raw_bulge(
                     [self EXCEPT !.start = point], Tail(points), point, bulge)
            ELSE add_2d_polyline_loop_raw_bulge(
                     IF prev_bulge # 0
                     THEN bulge_to(self, prev_point, point, prev_bulge)
                     ELSE line_to(self, point),
                     Tail(points), point, bulge)

\* the for-loop of Path.add_2d_polyline: [self, prev_bulge] after the points
RECURSIVE add_2d_polyline_loop(_, _, _, _)
add_2d_polyline_loop(self, points, prev_point, prev_bulge) ==
    IF points = <<>> THEN [self |-> self, prev_bulge |-> prev_bulge]
    ELSE LET x == Head(points)[1]
             y == Head(points)[2]
             bulge == IF Abs(Head(points)[3]) < BULGE_MIN THEN 0
                      ELSE Head(points)[3]
             point == <<x, y, 0>>
         IN IF prev_point = None
            THEN add_2d_polyline_loop([self EXCEPT !.start = point],
                                      Tail(points), point, bulge)
            ELSE add_2d_polyline_loop(
                     IF prev_bulge # 0
                     THEN bulge_to(self, prev_point, point, prev_bulge)
                     ELSE line_to(self, point),
                     Tail(points), point, bulge)

\* Path.add_2d_polyline
add_2d_polyline(self, points, close_, ocs, elevation) ==
    LET after == add_2d_polyline_loop(self, points, None, 0)
        p == after.self
        prev_bulge == after.prev_bulge
        closed == IF close_ /\ ~isclose(p.start, end(p), DEFAULT_ABS_TOL)
                  THEN IF prev_bulge # 0
                       THEN bulge_to(p, end(p), p.start, prev_bulge)
                       ELSE line_to(p, p.start)
                  ELSE p
    IN IF ocs.transform \/ elevation # 0
       THEN _to_wcs(closed, ocs, elevation) ELSE closed

\* ------------------------------------------------------------------ ellipse
\* param_span is in units of 1e-10; abs(param_span) < 1e-9 adds nothing.
PARAM_SPAN_MIN == 10

\* cubic_bezier_from_ellipse(ellipse, segments): the arc from the ellipse's
\* start point to its end point in `segments` connected cubic curves (the
\* ellipses passed span at most a quarter turn).
RECURSIVE cubic_bezier_from_ellipse(_, _)
cubic_bezier_from_ellipse(ellipse, segments) ==
    IF segments <= 1
    THEN << <<ellipse.start_point, CtrlA, CtrlB, ellipse.end_point>> >>
    ELSE LET mid == <<ellipse.start_point[1] + ellipse.end_point[1],
                      3 + segments, 0>>
         IN << <<ellipse.start_point, CtrlA, CtrlB, mid>> >> \o
            cubic_bezier_from_ellipse(
                [ellipse EXCEPT !.start_point = mid], segments - 1)

\* add_ellipse taking start from the ellipse whatever reset says.
add_ellipse_reset_always(self, ellipse, segments, reset) ==
    IF Abs(ellipse.param_span) < PARAM_SPAN_MIN
    THEN [path |-> self, raised |-> FALSE]
    ELSE LET s == IF len(self) = 0
                  THEN set_start(self, ellipse.start_point)
                  ELSE [path |-> self, raised |-> FALSE]
         IN [path |-> add_curves4(s.path,
                         cubic_bezier_from_ellipse(ellipse, segments)),
             raised |-> FALSE]

\* Path.add_ellipse: [path, raised]
add_ellipse(self, ellipse, segments, reset) ==
    IF Abs(ellipse.param_span) < PARAM_SPAN_MIN
    THEN [path |-> self, raised |-> FALSE]
    ELSE LET s == IF len(self) = 0 /\ reset
                  THEN set_start(self, ellipse.start_point)
                  ELSE [path |-> self, raised |-> FALSE]
         IN IF s.raised THEN s
            ELSE [path |-> add_curves4(s.path,
                              cubic_bezier_from_ellipse(ellipse, segments)),
                  raised |-> FALSE]

\* ------------------------------------------------------------------ spline
\* Path.add_spline: [path, raised].  A BSpline is given by spline.point(0),
\* its degree, is_rational, is_clamped, and the curves bezier_decomposition()
\* and cubic_bezier_approximation(level) return.
add_spline(self, spline, level, reset) ==
    LET s == IF len(self) = 0 /\ reset
             THEN set_start(self, spline.point0)
             ELSE [path |-> self, raised |-> FALSE]
        curves == IF spline.degree = 3 /\ ~spline.is_rational
                     /\ spline.is_clamped
                  THEN spline.bezier_decomposition
                  ELSE spline.cubic_bezier_approximation[level]
    IN IF s.raised THEN s
       ELSE [path |-> add_curves4(s.path, curves), raised |-> FALSE]

\* ------------------------------------------------------------------ sampling
\* Bezier3P.point / Bezier4P.point at t = i/n: the Bernstein sum, kept as
\* <<x, y, z, denominator>> with denominator n^2 or n^3.
bezier_point(cp, i, n) ==
    LET j == n - i
    IN IF Len(cp) = 3
       THEN <<j*j*cp[1][1] + 2*j*i*cp[2][1] + i*i*cp[3][1],
              j*j*cp[1][2] + 2*j*i*cp[2][2] + i*i*cp[3][2],
              j*j*cp[1][3] + 2*j*i*cp[2][3] + i*i*cp[3][3],
              n*n>>
       ELSE <<j*j*j*cp[1][1] + 3*j*j*i*cp[2][1] + 3*j*i*i*cp[3][1]
                + i*i*i*cp[4][1],
              j*j*j*cp[1][2] + 3*j*j*i*cp[2][2] + 3*j*i*i*cp[3][2]
                + i*i*i*cp[4][2],
              j*j*j*cp[1][3] + 3*j*j*i*cp[2][3] + 3*j*i*i*cp[3][3]
                + i*i*i*cp[4][3],
              n*n*n>>

\* Bezier3P.approximate / Bezier4P.approximate: the first control point, the
\* points at t = 1/segments .. (segments-1)/segments, the last control point.
bezier_approximate(cp, segments) ==
    <<cp[1]>> \o [i \in 1..(segments - 1) |-> bezier_point(cp, i, segments)]
              \o <<cp[Len(cp)]>>

\* Bezier3P.flattening / Bezier4P.flattening: `segments` base chords, each
\* bisected while its midpoint is further than `distance` from the curve.
\* A distance of FLAT_ENOUGH or more accepts the base chords; a smaller one
\* bisects every chord once.
FLAT_ENOUGH == 2

bezier_flattening(cp, distance, segments) ==
    IF distance >= FLAT_ENOUGH THEN bezier_approximate(cp, segments)
    ELSE bezier_approximate(cp, 2 * segments)

\* approx_curve3 / approx_curve4 of Path.approximate and Path.flattening
approx_curve(how, cp) ==
    IF how.fn = "approximate" THEN bezier_approximate(cp, how.segments)
    ELSE bezier_flattening(cp, how.distance, how.segments)

\* The loop of _approximate with the first vertex of every curve kept.
RECURSIVE _approximate_loop_keep_first(_, _, _)
_approximate_loop_keep_first(how, start_, cmds) ==
    IF cmds = <<>> THEN [points |-> <<>>, raised |-> FALSE]
    ELSE LET cmd == Head(cmds)
             end_location == cmd.end
             rest == _approximate_loop_keep_first(how, end_location,
                                                  Tail(cmds))
             out(pts) == [points |-> pts \o rest.points, raised |-> rest.raised]
         IN CASE cmd.type = "LINE_TO" -> out(<<end_location>>)
              [] cmd.type = "CURVE3_TO" ->
                   out(approx_curve(how, <<start_, cmd.ctrl, end_location>>))
              [] cmd.type = "CURVE4_TO" ->
                   out(approx_curve(how,
                        <<start_, cmd.ctrl1, cmd.ctrl2, end_location>>))
              [] OTHER -> [points |-> <<>>, raised |-> TRUE]

\* the for-loop of Path._approximate: [points, raised]
RECURSIVE _approximate_loop(_, _, _)
_approximate_loop(how, start_, cmds) ==
    IF cmds = <<>> THEN [points |-> <<>>, raised |-> FALSE]
    ELSE LET cmd == Head(cmds)
             end_location == cmd.end
             rest == _approximate_loop(how, end_location, Tail(cmds))
             out(pts) == [points |-> pts \o rest.points, raised |-> rest.raised]
         IN CASE cmd.type = "LINE_TO" -> out(<<end_location>>)
              [] cmd.type = "CURVE3_TO" ->
                   out(Tail(approx_curve(how, <<start_, cmd.ctrl, end_location>>)))
              [] cmd.type = "CURVE4_TO" ->
                   out(Tail(approx_curve(how,
                        <<start_, cmd.ctrl1, cmd.ctrl2, end_location>>)))
              [] OTHER -> [points |-> <<>>, raised |-> TRUE]

\* _approximate without the first yield of start.
approximate_without_start(self, how) ==
    IF self.commands = <<>> THEN [points |-> <<>>, raised |-> FALSE]
    ELSE _approximate_loop(how, self.start, self.commands)

\* Path._approximate
_approximate(self, how) ==
    IF self.commands = <<>> THEN [points |-> <<>>, raised |-> FALSE]
    ELSE LET r == _approximate_loop(how, self.start, self.commands)
         IN [points |-> <<self.start>> \o r.points, raised |-> r.raised]

\* Path.approximate
approximate(self, segments) ==
    _approximate(self, [fn |-> "approximate", segments |-> segments])

\* Path.flattening
flattening(self, distance, segments) ==
    _approximate(self, [fn |-> "flattening", distance |-> distance,
                        segments |-> segments])

\* ------------------------------------------------------------------ generators
\* control_vertices, approximate and flattening are generator functions: a
\* call returns a generator object holding its own frame, and every next()
\* runs the body up to the next yield.  A frame holds the position in the
\* body (pc), the position of the for-loop in self._commands (index), the
\* local `start` of _approximate, and what the running loop pass has still
\* to yield (rest).
NewFrame(how) ==
    [how |-> how, pc |-> "start", index |-> 1, start |-> NULLVEC,
     rest |-> <<>>]

\* What one pass of the for-loop yields for cmd: [points, raised]
pass_yields(how, start_, cmd) ==
    IF how.fn = "control_vertices"
    THEN [points |-> control_vertices_loop(<<cmd>>), raised |-> FALSE]
    ELSE _approximate_loop(how, start_, <<cmd>>)

\* next(generator): [frame, yielded, raised]; yielded holds the value
\* yielded, or nothing at StopIteration.
gen_next(self, f) ==
    LET stop == [frame |-> [f EXCEPT !.pc = "done"], yielded |-> <<>>,
                 raised |-> FALSE]
    IN CASE f.pc = "start" ->
              IF len(self) = 0 THEN stop
              ELSE [frame |-> [f EXCEPT !.pc = "loop", !.start = self.start],
                    yielded |-> <<self.start>>, raised |-> FALSE]
         [] f.pc = "loop" /\ f.rest # <<>> ->
              [frame |-> [f EXCEPT !.rest = Tail(@)],
               yielded |-> <<Head(f.rest)>>, raised |-> FALSE]
         [] f.pc = "loop" /\ f.rest = <<>> ->
              IF f.index > len(self) THEN stop
              ELSE LET cmd == self.commands[f.index]
                       y == pass_yields(f.how, f.start, cmd)
                   IN IF y.raised THEN [stop EXCEPT !.raised = TRUE]
                      ELSE [frame |-> [f EXCEPT !.index = @ + 1,
                                                !.start = cmd.end,
                                                !.rest = Tail(y.points)],
                            yielded |-> <<Head(y.points)>>,
                            raised |-> FALSE]
         [] OTHER -> stop

\* ------------------------------------------------------------------ transform
\* Matrix44 as a uniform scale followed by a translation.
Matrix44(scale_, shift_) == [scale |-> scale_, shift |-> shift_]

\* Matrix44.transform
m_transform(m, p) ==
    <<m.scale * p[1] + m.shift[1], m.scale * p[2] + m.shift[2],
      m.scale * p[3] + m.shift[3]>>

\* Matrix44.transform_vertices
m_transform_vertices(m, vertices) ==
    [i \in 1..Len(vertices) |-> m_transform(m, vertices[i])]

\* the for-loop of Path.transform: [path, raised]
RECURSIVE transform_loop(_, _, _)
transform_loop(new_path, cmds, m) ==
    IF cmds = <<>> THEN [path |-> new_path, raised |-> FALSE]
    ELSE LET cmd == Head(cmds)
         IN CASE cmd.type = "LINE_TO" ->
                   transform_loop(line_to(new_path, m_transform(m, cmd.end)),
                                  Tail(cmds), m)
              [] cmd.type = "CURVE3_TO" ->
                   LET v == m_transform_vertices(m, <<cmd.end, cmd.ctrl>>)
                   IN transform_loop(curve3_to(new_path, v[1], v[2]),
                                     Tail(cmds), m)
              [] cmd.type = "CURVE4_TO" ->
                   LET v == m_transform_vertices(
                                m, <<cmd.end, cmd.ctrl1, cmd.ctrl2>>)
                   IN transform_loop(curve4_to(new_path, v[1], v[2], v[3]),
                                     Tail(cmds), m)
              [] OTHER -> [path |-> new_path, raised |-> TRUE]

\* Path.transform: [path, raised]
transform(self, m) ==
    transform_loop(Path(m_transform(m, self.start)), self.commands, m)

\* A translation, and a point reflection with a translation.
Matrices == {Matrix44(1, <<3, 0, 0>>), Matrix44(-1, <<0, 3, 0>>)}

\* ------------------------------------------------------------------ ownership
\* The list object that _commands of a returned Path refers to: the list of
\* the Path it was made from, or a list of its own.
SELF_LIST == "self._commands"
NEW_LIST == "a new list"

\* Path.__init__: self._commands = []
init_list == NEW_LIST

\* copy._commands bound to the receiver's list itself.
copy_list_shared == SELF_LIST

\* Path.__copy__: copy._commands = list(self._commands)
copy_list == NEW_LIST

\* The list of the Path clockwise / counter_clockwise return.
oriented_list(cloned) == IF cloned THEN copy_list ELSE init_list

\* A Path object returned by operation `by` of the Path in `path`.
Returned(by_, p, list_) ==
    [by |-> by_, start |-> p.start, commands |-> p.commands, list |-> list_]

\* No Path has been returned.
NoPath == Returned("none", Path(NULLVEC), NEW_LIST)

\* ------------------------------------------------------------------ repair
\* ezdxf.lldxf.repair (src/ezdxf/lldxf/repair.py): the coordinate tags of
\* LINE entities of a DXF stream put in order.  A stream is the sequence of
\* its lines, a group code and a value in turn; a code is an integer and a
\* value a string.
DXFTag(code_, value_) == [code |-> code_, value |-> value_]

\* simple_tagger: a tag per pair of lines; a last line without a partner
\* ends the stream.
simple_tagger(stream) ==
    [i \in 1..(Len(stream) \div 2) |->
        DXFTag(stream[2 * i - 1], stream[2 * i])]

LINE_COORD_CODES == {10, 11, 20, 21, 30, 31}

\* The values of the tags that are not entity heads, in the order of str.
Values ==
    <<"01", "02", "03", "04", "05", "06", "07", "08", "09", "10",
      "11", "12", "13", "14", "15", "16", "17", "18", "19", "20">>

\* a < b for two DXFTag tuples: by code, then by value.
tag_lt(a, b) ==
    \/ a.code < b.code
    \/ /\ a.code = b.code
       /\ \E i, j \in 1..Len(Values) :
            i < j /\ Values[i] = a.value /\ Values[j] = b.value

\* list.sort
RECURSIVE sort(_)
sort(tags) ==
    IF tags = <<>> THEN <<>>
    ELSE LET rest == sort(Tail(tags))
             below == SelectSeq(rest, LAMBDA t : tag_lt(t, Head(tags)))
             above == SelectSeq(rest, LAMBDA t : ~tag_lt(t, Head(tags)))
         IN below \o <<Head(tags)>> \o above

\* list.index, counted from 1
index_of(tags, tag) ==
    CHOOSE i \in 1..Len(tags) :
        tags[i] = tag /\ \A j \in 1..(i - 1) : tags[j] # tag

\* fix_line_coordinate_order
fix_line_coordinate_order(tags) ==
    LET entity == tags[1].value
        coordinates ==
            SelectSeq(tags, LAMBDA t : t.code \in LINE_COORD_CODES)
    IN IF entity # "LINE" THEN tags
       ELSE IF Len(coordinates) \notin {4, 6} THEN tags
       ELSE LET index == index_of(tags, coordinates[1])
                c == sort(coordinates)
                fixed_tags ==
                    SelectSeq(tags, LAMBDA t : t.code \notin LINE_COORD_CODES)
                ordered_coords ==
                    IF Len(c) = 4 THEN <<c[1], c[3], c[2], c[4]>>
                    ELSE <<c[1], c[3], c[5], c[2], c[4], c[6]>>
                at == IF index - 1 < Len(fixed_tags) THEN index - 1
                      ELSE Len(fixed_tags)
            IN SubSeq(fixed_tags, 1, at) \o ordered_coords
                 \o SubSeq(fixed_tags, at + 1, Len(fixed_tags))

\* COORDINATE_FIXING_TOOLBOX: the entities with a fixing function
COORDINATE_FIXING_TOOLBOX == {"LINE"}

\* the for-loop of fix_coordinates: the tags it yields from `tags` on, with
\* `collector` the entity being collected (None outside of one).  When the
\* tags end the generator returns.
RECURSIVE fix_coordinates_loop(_, _)
fix_coordinates_loop(tags, collector) ==
    IF tags = <<>> THEN <<>>
    ELSE LET tag == Head(tags)
         IN IF tag.code = 0
            THEN LET fixed == IF collector # None
                              THEN fix_line_coordinate_order(collector)
                              ELSE <<>>
                 IN IF tag.value \in COORDINATE_FIXING_TOOLBOX
                    THEN fixed \o fix_coordinates_loop(Tail(tags), <<tag>>)
                    ELSE fixed \o <<tag>>
                           \o fix_coordinates_loop(Tail(tags), None)
            ELSE IF collector # None
                 THEN fix_coordinates_loop(Tail(tags), Append(collector, tag))
                 ELSE <<tag>> \o fix_coordinates_loop(Tail(tags), None)

\* list(fix_coordinates(stream))
fix_coordinates(stream) == fix_coordinates_loop(simple_tagger(stream), None)

\* Streams: an optional comment and CIRCLE, a LINE entity of up to MaxBody
\* coordinate tags of a 2D line in any order and number, or of the six of a
\* 3D line, with a layer tag among them or not, and what follows it: nothing,
\* the end of file, or another entity first.
CoordBodies ==
    SeqsUpTo({10, 11, 20, 21}, MaxBody) \cup
    {<<10, 20, 30, 11, 21, 31>>, <<10, 11, 20, 21, 30, 31>>,
     <<31, 21, 11, 30, 20, 10>>}

WithLayer(body) ==
    {body, <<8>> \o body, body \o <<8>>} \cup
    (IF body = <<>> THEN {}
     ELSE {<<Head(body), 8>> \o Tail(body)})

StreamHeads == {<<>>, <<<<999, "">>, <<0, "CIRCLE">>, <<20, "">>, <<10, "">>>>}

StreamTails ==
    {<<>>,
     <<<<0, "EOF">>>>,
     <<<<0, "CIRCLE">>, <<10, "">>, <<20, "">>, <<0, "EOF">>>>,
     <<<<0, "LINE">>, <<11, "">>, <<21, "">>, <<10, "">>, <<20, "">>>>,
     <<<<0, "LINE">>, <<11, "">>, <<21, "">>, <<10, "">>, <<20, "">>,
       <<0, "EOF">>>>}

\* The lines of the tags: the code, then the value; a tag that is not an
\* entity head gets the value of its position.
RECURSIVE lines_of(_, _)
lines_of(pairs, i) ==
    IF i > Len(pairs) THEN <<>>
    ELSE <<pairs[i][1], IF pairs[i][1] = 0 THEN pairs[i][2] ELSE Values[i]>>
           \o lines_of(pairs, i + 1)

Streams ==
    {lines_of(head \o <<<<0, "LINE">>>>
                \o [i \in 1..Len(body) |-> <<body[i], "">>] \o tail, 1) :
        head \in StreamHeads,
        body \in UNION {WithLayer(b) : b \in CoordBodies},
        tail \in StreamTails}

\* ------------------------------------------------------------------ inputs
\* Some curve lists: none, one curve each way, two curves with a gap.
SomeCurves4 ==
    {<<>>,
     << <<<<0, 0, 0>>, CtrlA, CtrlB, <<3, 0, 0>>>> >>,
     << <<<<3, 0, 0>>, CtrlA, CtrlB, <<0, 0, 0>>>> >>,
     << <<<<3, 0, 0>>, CtrlA, CtrlB, <<0, 0, 0>>>>,
        <<<<3, 0, 0>>, CtrlA, CtrlB, <<3, 0, 0>>>> >>}

SomeCurves3 ==
    {<<>>,
     << <<<<0, 0, 0>>, CtrlA, <<3, 0, 0>>>> >>,
     << <<<<3, 0, 0>>, CtrlA, <<0, 0, 0>>>> >>}

\* Some polylines of vertices (x, y, bulge): a single vertex; a straight
\* edge in a flipped, elevated frame; a clockwise arc, closed.
Polyline(points_, close_, ocs_, elevation_) ==
    [points |-> points_, close |-> close_, ocs |-> ocs_,
     elevation |-> elevation_]

SomePolylines ==
    {Polyline(<< <<3, 0, 0>> >>, FALSE, OCS_Z, 0),
     Polyline(<< <<1, 0, 0>>, <<3, 0, 0>> >>, FALSE, OCS_FLIP, 2),
     Polyline(<< <<0, 0, -4000000>>, <<3, 0, 0>> >>, TRUE, OCS_Z, 0)}

\* Polylines of up to MaxPoints vertices: bulges of zero, below and at 1e-6,
\* and of a clockwise arc of more than a quarter circle; open and closed; in
\* the world frame and in a flipped, elevated one.
Bulges == {0, 5, 10, -5000000}
PolylinePoints ==
    {<<v[1], v[2], bulge>> : v \in Points, bulge \in Bulges}
Frames == {<<OCS_Z, 0>>, <<OCS_FLIP, 2>>}
Polylines ==
    {Polyline(points, close_, frame[1], frame[2]) :
        points \in SeqsUpTo(PolylinePoints, MaxPoints),
        close_ \in BOOLEAN, frame \in Frames}

\* Elliptical arcs to the origin, [start_point, end_point, param_span]: two
\* of a span of 2e-9 and one of a span of 5e-10.
Ellipse(start_, span) ==
    [start_point |-> start_, end_point |-> <<0, 0, 0>>, param_span |-> span]

Ellipses ==
    {Ellipse(<<1, 0, 0>>, 20), Ellipse(<<3, 0, 0>>, 20),
     Ellipse(<<3, 0, 0>>, 5)}

\* Elliptical arcs to the origin from a point within tolerance of it and from
\* a far one, of spans below, at and above 1e-9, of either sign.
ParamSpans == {-20, -5, 5, 10, 20}
SpannedEllipses ==
    {Ellipse(s, span) : s \in {<<1, 0, 0>>, <<3, 0, 0>>}, span \in ParamSpans}

\* B-splines from (3, 0, 0) to the origin: a clamped cubic one and a
\* quadratic one.
Levels == {1, 2}

BSpline(s, degree_) ==
    [point0 |-> s, degree |-> degree_, is_rational |-> FALSE,
     is_clamped |-> TRUE,
     bezier_decomposition |-> << <<s, CtrlA, CtrlB, <<0, 0, 0>> >> >>,
     cubic_bezier_approximation |->
        [level \in Levels |->
            cubic_bezier_from_ellipse(Ellipse(s, 20), level)]]

Splines == {BSpline(<<3, 0, 0>>, d) : d \in {2, 3}}

\* Vertices of from_vertices: 2D and 3D ones, two of them within tolerance.
Vertices == {<<0, 0>>, <<1, 0>>, <<3, 0>>, <<3, 3, 0>>}

\* distance of flattening
Distances == {1, 2}

\* ------------------------------------------------------------------ state
VARIABLES
    path,      \* the Path object: [start, commands]
    mutated,   \* a mutation operation has been called on the Path
    ret,       \* the last operation: its name, arguments, the Path before
               \* it, what it returned and whether it raised
    derived,   \* a Path object an operation of `path` returned and the
               \* caller kept, with the list object its _commands refers to
    traversals \* the generator objects control_vertices, approximate and
               \* flattening of `path` returned, in the order of the calls:
               \* the frame of each and what it has yielded

vars == <<path, mutated, ret, derived, traversals>>

Op(name, args, val, raised) ==
    [op |-> name, pre |-> path, args |-> args, val |-> val, raised |-> raised]

\* path = Path()
Init ==
    /\ path = Path(NULLVEC)
    /\ mutated = FALSE
    /\ ret = [op |-> "init", pre |-> Path(NULLVEC), args |-> <<>>,
              val |-> <<>>, raised |-> FALSE]
    /\ derived = NoPath
    /\ traversals = <<>>

\* path.start = location
SetStart ==
    /\ \E location \in Points :
         LET r == set_start(path, location)
         IN /\ path' = r.path
            /\ ret' = Op("start", <<location>>, <<>>, r.raised)
    /\ UNCHANGED <<mutated, derived, traversals>>

\* What the kept Path holds once the list of `path` holds cmds: the mutation
\* operations change the list in place, so a Path referring to the same list
\* object holds them too.
Seen(cmds) ==
    IF derived.list = SELF_LIST THEN [derived EXCEPT !.commands = cmds]
    ELSE derived

Mutate(name, args, p) ==
    /\ path' = p
    /\ mutated' = TRUE
    /\ ret' = Op(name, args, <<>>, FALSE)
    /\ derived' = Seen(p.commands)
    /\ UNCHANGED traversals

MutateOrRaise(name, args, r) ==
    /\ path' = r.path
    /\ mutated' = TRUE
    /\ ret' = Op(name, args, <<>>, r.raised)
    /\ derived' = Seen(r.path.commands)
    /\ UNCHANGED traversals

\* path.line_to(location)
DoLineTo(cap) ==
    /\ len(path) < cap
    /\ \E location \in Points :
         Mutate("line_to", <<location>>, line_to(path, location))

\* path.curve3_to(location, ctrl)
DoCurve3To(cap) ==
    /\ len(path) < cap
    /\ \E location \in Points :
         Mutate("curve3_to", <<location, CtrlA>>,
                curve3_to(path, location, CtrlA))

\* path.curve4_to(location, ctrl1, ctrl2)
DoCurve4To(cap) ==
    /\ len(path) < cap
    /\ \E location \in Points :
         Mutate("curve4_to", <<location, CtrlA, CtrlB>>,
                curve4_to(path, location, CtrlA, CtrlB))

\* path.close()
DoClose(cap) ==
    /\ len(path) < cap
    /\ Mutate("close", <<>>, close(path))

\* path.add_curves4(curves)
DoAddCurves4(lists) ==
    /\ len(path) < MaxCmds
    /\ \E curves \in lists :
         Mutate("add_curves4", curves, add_curves4(path, curves))

\* path.add_curves3(curves)
DoAddCurves3(lists) ==
    /\ len(path) < MaxCmds
    /\ \E curves \in lists :
         Mutate("add_curves3", curves, add_curves3(path, curves))

\* path.add_2d_polyline(points, close, ocs, elevation)
DoAdd2dPolyline(polylines) ==
    /\ len(path) < MaxCmds
    /\ \E a \in polylines :
         Mutate("add_2d_polyline", a,
                add_2d_polyline(path, a.points, a.close, a.ocs, a.elevation))

\* path.add_ellipse(ellipse, segments, reset)
DoAddEllipse(ellipses, most) ==
    /\ len(path) < MaxCmds
    /\ \E ellipse \in ellipses, segments \in 1..most, reset \in BOOLEAN :
         MutateOrRaise("add_ellipse", <<ellipse, segments, reset>>,
                       add_ellipse(path, ellipse, segments, reset))

\* path.add_spline(spline, level, reset)
DoAddSpline(splines) ==
    /\ len(path) < MaxCmds
    /\ \E spline \in splines, level \in Levels, reset \in BOOLEAN :
         MutateOrRaise("add_spline", <<spline, level, reset>>,
                       add_spline(path, spline, level, reset))

Query(name, args, val) ==
    /\ ret' = Op(name, args, val, FALSE)
    /\ UNCHANGED <<path, mutated, derived, traversals>>

\* path.reversed()
DoReversed == Query("reversed", <<>>, reversed(path))

\* path.clockwise()
DoClockwise == Query("clockwise", <<>>, clockwise(path))

\* path.counter_clockwise()
DoCounterClockwise ==
    Query("counter_clockwise", <<>>, counter_clockwise(path))

\* path.clone()
DoClone == Query("clone", <<>>, clone(path))

\* path.transform(m)
DoTransform ==
    \E m \in Matrices :
        LET r == transform(path, m)
        IN /\ ret' = Op("transform", <<m>>, r.path, r.raised)
           /\ UNCHANGED <<path, mutated, derived, traversals>>

\* list(fix_coordinates(stream))
DoFixCoordinates ==
    /\ \E stream \in Streams :
         ret' = Op("fix_coordinates", <<stream>>, fix_coordinates(stream),
                   FALSE)
    /\ UNCHANGED <<path, mutated, derived, traversals>>

\* list(path.approximate(segments))
DoApproximate ==
    \E segments \in 1..MaxSegments :
        LET r == approximate(path, segments)
        IN /\ ret' = Op("approximate", <<segments>>, r.points, r.raised)
           /\ UNCHANGED <<path, mutated, derived, traversals>>

\* list(path.flattening(distance, segments))
DoFlattening ==
    \E distance \in Distances, segments \in 1..MaxSegments :
        LET r == flattening(path, distance, segments)
        IN /\ ret' = Op("flattening", <<distance, segments>>, r.points,
                        r.raised)
           /\ UNCHANGED <<path, mutated, derived, traversals>>

\* path = Path.from_vertices(vertices, close): a class method, it has no
\* receiver.
DoFromVertices ==
    /\ \E vertices \in SeqsUpTo(Vertices, MaxVertices), close_ \in BOOLEAN :
         /\ path' = from_vertices(vertices, close_)
         /\ ret' = [op |-> "from_vertices", pre |-> Path(NULLVEC),
                    args |-> <<vertices, close_>>, val |-> <<>>,
                    raised |-> FALSE]
    /\ mutated' = FALSE
    /\ UNCHANGED <<derived, traversals>>

\* Every generator runs in the frame of the first one.
frame_shared(k) == traversals[1].frame

\* The frame generator k runs in: its own.
frame_of(k) == traversals[k].frame

\* it = path.control_vertices() / path.approximate(..) / path.flattening(..)
Traverse(how) ==
    /\ Len(traversals) < MaxTraversals
    /\ traversals' = Append(traversals,
                            [frame |-> NewFrame(how), out |-> <<>>])
    /\ UNCHANGED <<path, mutated, ret, derived>>

\* How the traversed Paths are sampled.
WalkSegments == {2}
WalkFlattening == {<<1, 1>>}

TraverseControlVertices == Traverse([fn |-> "control_vertices"])

TraverseApproximate ==
    \E segments \in WalkSegments :
        Traverse([fn |-> "approximate", segments |-> segments])

TraverseFlattening ==
    \E a \in WalkFlattening :
        Traverse([fn |-> "flattening", distance |-> a[1], segments |-> a[2]])

\* next(it) on a generator that is not exhausted
NextItem ==
    \E k \in 1..Len(traversals) :
        /\ frame_of(k).pc # "done"
        /\ LET r == gen_next(path, frame_of(k))
           IN traversals' =
                [traversals EXCEPT ![k] = [frame |-> r.frame,
                                           out |-> @.out \o r.yielded]]
        /\ UNCHANGED <<path, mutated, ret, derived>>

\* other = path.<name>(...): the returned Path is kept.
Keep(name, args, r, list_) ==
    /\ ret' = Op(name, args, r.path, r.raised)
    /\ derived' = IF r.raised THEN derived ELSE Returned(name, r.path, list_)
    /\ UNCHANGED <<path, mutated, traversals>>

Returns(p) == [path |-> p, raised |-> FALSE]

\* other = path.clone()
KeepClone == Keep("clone", <<>>, Returns(clone(path)), copy_list)

\* other = path.reversed()
KeepReversed == Keep("reversed", <<>>, Returns(reversed(path)), init_list)

\* other = path.clockwise()
KeepClockwise ==
    Keep("clockwise", <<>>, Returns(clockwise(path)),
         oriented_list(has_clockwise_orientation(path)))

\* other = path.counter_clockwise()
KeepCounterClockwise ==
    Keep("counter_clockwise", <<>>, Returns(counter_clockwise(path)),
         oriented_list(~has_clockwise_orientation(path)))

\* other = path.transform(m)
KeepTransform ==
    \E m \in Matrices : Keep("transform", <<m>>, transform(path, m), init_list)

\* An append to the kept Path: p is what it holds afterwards.  `path` holds
\* the same commands when both refer to one list object.
MutateOther(name, args, p) ==
    /\ derived.by # "none"
    /\ Len(derived.commands) <= MaxOwned
    /\ derived' = [derived EXCEPT !.commands = p.commands]
    /\ path' = IF derived.list = SELF_LIST
               THEN [path EXCEPT !.commands = p.commands] ELSE path
    /\ ret' = Op(name, args, <<>>, FALSE)
    /\ UNCHANGED <<mutated, traversals>>

\* What the kept Path is appended to with.
OtherPoints == {<<3, 0, 0>>}
OtherCurves4 == {<< <<<<0, 0, 0>>, CtrlA, CtrlB, <<3, 0, 0>>>> >>}

\* The kept Path as a Path value.
Other == [start |-> derived.start, commands |-> derived.commands]

\* other.line_to(location)
OtherLineTo ==
    \E location \in OtherPoints :
        MutateOther("other.line_to", <<location>>, line_to(Other, location))

\* other.curve3_to(location, ctrl)
OtherCurve3To ==
    \E location \in OtherPoints :
        MutateOther("other.curve3_to", <<location, CtrlA>>,
                    curve3_to(Other, location, CtrlA))

\* other.curve4_to(location, ctrl1, ctrl2)
OtherCurve4To ==
    \E location \in OtherPoints :
        MutateOther("other.curve4_to", <<location, CtrlA, CtrlB>>,
                    curve4_to(Other, location, CtrlA, CtrlB))

\* other.close()
OtherClose == MutateOther("other.close", <<>>, close(Other))

\* other.add_curves4(curves)
OtherAddCurves4 ==
    \E curves \in OtherCurves4 :
        MutateOther("other.add_curves4", curves, add_curves4(Other, curves))

\* Any sequence of the start setter and the mutation operations.
Next ==
    \/ SetStart
    \/ DoLineTo(MaxCmds)
    \/ DoCurve3To(MaxCmds)
    \/ DoCurve4To(MaxCmds)
    \/ DoClose(MaxCmds)
    \/ DoAddCurves4(SomeCurves4)
    \/ DoAddCurves3(SomeCurves3)
    \/ DoAdd2dPolyline(SomePolylines)
    \/ DoAddEllipse(Ellipses, 1)
    \/ DoAddSpline(Splines)

Spec == Init /\ [][Next]_vars

\* Curve lists added to Paths built command by command.
NextCurves ==
    \/ SetStart
    \/ DoLineTo(MaxCmds)
    \/ DoCurve3To(MaxCmds)
    \/ DoCurve4To(MaxCmds)
    \/ DoAddCurves4(SeqsUpTo(Beziers4, MaxCurves))
    \/ DoAddCurves3(SeqsUpTo(Beziers3, MaxCurves))

SpecCurves == Init /\ [][NextCurves]_vars

\* Paths built command by command, then closed, reversed and re-oriented.
NextDerived ==
    \/ SetStart
    \/ DoLineTo(MaxLen)
    \/ DoCurve3To(MaxLen)
    \/ DoCurve4To(MaxLen)
    \/ DoClose(MaxLen)
    \/ DoReversed
    \/ DoClockwise
    \/ DoCounterClockwise

SpecDerived == Init /\ [][NextDerived]_vars

\* Paths built command by command, then sampled.
NextSampling ==
    \/ SetStart
    \/ DoLineTo(MaxSampled)
    \/ DoCurve3To(MaxSampled)
    \/ DoCurve4To(MaxSampled)
    \/ DoApproximate
    \/ DoFlattening

SpecSampling == Init /\ [][NextSampling]_vars

\* Paths made from vertex lists, then built on.
NextFactory ==
    \/ DoFromVertices
    \/ SetStart
    \/ DoLineTo(MaxCmds)
    \/ DoClose(MaxCmds)

SpecFactory == Init /\ [][NextFactory]_vars

\* Paths built command by command and then traversed, by several generators
\* at once.
NextTraversals ==
    \/ traversals = <<>> /\ DoLineTo(MaxWalked)
    \/ traversals = <<>> /\ DoCurve3To(MaxWalked)
    \/ traversals = <<>> /\ DoCurve4To(MaxWalked)
    \/ TraverseControlVertices
    \/ TraverseApproximate
    \/ TraverseFlattening
    \/ NextItem

SpecTraversals == Init /\ [][NextTraversals]_vars

\* Paths built command by command, with elliptical arcs added.
NextEllipse ==
    \/ SetStart
    \/ DoLineTo(MaxCmds)
    \/ DoCurve4To(MaxCmds)
    \/ DoAddEllipse(SpannedEllipses, MaxSegments)

SpecEllipse == Init /\ [][NextEllipse]_vars

\* Polylines added to a new Path.
NextPolyline ==
    \/ SetStart
    \/ ~mutated /\ DoAdd2dPolyline(Polylines)

SpecPolyline == Init /\ [][NextPolyline]_vars

\* Every public operation that makes or changes a Path, and the operations
\* that can raise on a command of an unknown kind.  from_vertices makes a
\* Path whatever was done before, so it comes first.
NextKinds ==
    \/ ret.op = "init" /\ DoFromVertices
    \/ SetStart
    \/ DoLineTo(MaxOwned)
    \/ DoCurve3To(MaxOwned)
    \/ DoCurve4To(MaxOwned)
    \/ DoClose(MaxOwned)
    \/ DoAddCurves4(SomeCurves4)
    \/ DoAddCurves3(SomeCurves3)
    \/ DoAdd2dPolyline(SomePolylines)
    \/ DoAddEllipse(Ellipses, 1)
    \/ DoAddSpline(Splines)
    \/ DoClone
    \/ DoReversed
    \/ DoClockwise
    \/ DoCounterClockwise
    \/ DoTransform
    \/ DoApproximate
    \/ DoFlattening

SpecKinds == Init /\ [][NextKinds]_vars

\* A DXF stream is put through fix_coordinates.
NextRepair == ret.op = "init" /\ DoFixCoordinates

SpecRepair == Init /\ [][NextRepair]_vars

\* Paths built, handed out by the operations that return a Path, and both
\* the receiver and the returned Path appended to afterwards.
NextOwners ==
    \/ SetStart
    \/ DoLineTo(MaxOwned)
    \/ DoClose(MaxOwned)
    \/ len(path) < MaxOwned /\ DoAddCurves4(OtherCurves4)
    \/ KeepClone
    \/ KeepReversed
    \/ KeepClockwise
    \/ KeepCounterClockwise
    \/ KeepTransform
    \/ OtherLineTo
    \/ OtherCurve3To
    \/ OtherCurve4To
    \/ OtherClose
    \/ OtherAddCurves4

SpecOwners == Init /\ [][NextOwners]_vars

\* ------------------------------------------------------------------ claims
\* The commands the last operation appended to the Path.
Appended == SubSeq(path.commands, len(ret.pre) + 1, len(path))

\* C1 as stated: once any mutation operation has been called on the Path,
\* assigning start raises and leaves the Path as it was.
C1_StartFailsAfterAnyMutation ==
    (ret.op = "start" /\ mutated) => (ret.raised /\ path = ret.pre)

\* C1 as amended: assigning start succeeds and sets start to the given point
\* exactly when the Path holds no command (whatever operations were called
\* on it before); on a Path holding a command it raises and leaves start and
\* the commands unchanged.
C1_StartSetter ==
    ret.op = "start" =>
        IF ret.pre.commands = <<>>
        THEN /\ ~ret.raised
             /\ path.start = ret.args[1]
             /\ path.commands = <<>>
        ELSE /\ ret.raised
             /\ path = ret.pre

\* start was assigned on a Path that holds a command, and raised.
C1_Witness ==
    /\ ret.op = "start"
    /\ ret.raised
    /\ mutated
    /\ path.commands # <<>>
    /\ ret.args[1] # path.start

\* C2: no operation alters start of a Path that holds at least one command
\* when the operation is invoked.
C2_StartFixedOnceCommands ==
    ret.pre.commands # <<>> => path.start = ret.pre.start

\* C3: end is start on a Path without commands and the end point of the last
\* command otherwise (the location given to line_to, curve3_to, curve4_to
\* right after them); is_closed holds exactly when every axis of start and
\* end differs by at most the tolerance.
C3_EndAndClosed ==
    LET n == Len(path.commands)
        last == IF n = 0 THEN path.start ELSE path.commands[n].end
    IN /\ end(path) = last
       /\ ret.op \in {"line_to", "curve3_to", "curve4_to"}
            => end(path) = ret.args[1]
       /\ (ret.op = "start" /\ ~ret.raised) => end(path) = ret.args[1]
       /\ is_closed(path) <=>
            /\ Abs(path.start[1] - last[1]) <= DEFAULT_ABS_TOL
            /\ Abs(path.start[2] - last[2]) <= DEFAULT_ABS_TOL
            /\ Abs(path.start[3] - last[3]) <= DEFAULT_ABS_TOL

\* A Path with commands whose end differs from start but is within tolerance.
C3_Witness ==
    /\ Len(path.commands) >= 2
    /\ end(path) # path.start
    /\ is_closed(path)
    /\ ret.op = "add_curves4"

\* C4: reversed(reversed(P)) has the start and the commands of P, for every
\* Path P, one without commands included.
C4_ReversedTwice ==
    ret.op = "reversed" => reversed(ret.val) = path

\* C5: close() appends LineTo(start) exactly when the Path is not closed and
\* nothing otherwise, keeps start, leaves the Path closed, and a close()
\* right after a close() changes nothing.
C5_Close ==
    [][ret'.op = "close" =>
         /\ ~is_closed(path) =>
              path'.commands = Append(path.commands, LineTo(path.start))
         /\ is_closed(path) => path'.commands = path.commands
         /\ path'.start = path.start
         /\ is_closed(path')
         /\ ret.op = "close" => path' = path]_vars

\* close() was called on the Path a close() had just closed with a line.
C5_Witness ==
    /\ ret.op = "close"
    /\ path = ret.pre
    /\ len(path) >= 2
    /\ path.commands[len(path)] = LineTo(path.start)
    /\ ~isclose(path.start, path.commands[len(path) - 1].end,
                DEFAULT_ABS_TOL)

\* C6: on a Path with commands, approximate(n) and flattening(d, n) yield
\* start first and end last.
C6_SamplingEndpoints ==
    (ret.op \in {"approximate", "flattening"} /\ len(path) >= 1) =>
        /\ ~ret.raised
        /\ Len(ret.val) >= 2
        /\ ret.val[1] = path.start
        /\ ret.val[Len(ret.val)] = path.commands[len(path)].end

\* flattening sampled a Path that ends with a curve.
C6_Witness ==
    /\ ret.op = "flattening"
    /\ len(path) = 2
    /\ path.commands[1].type = "CURVE3_TO"
    /\ path.commands[2].type = "CURVE4_TO"
    /\ Len(ret.val) > 3

\* Twice the signed area over the control vertices is not zero.
NonDegenerate(p) == SignedArea2(control_vertices(p), 1) # 0

\* C7: for a closed Path of non-zero signed area, clockwise() is clockwise
\* and counter_clockwise() is not; clockwise() is the clone of a clockwise
\* Path and the reversed Path otherwise, counter_clockwise() the opposite.
C7_Orientation ==
    (is_closed(path) /\ NonDegenerate(path)) =>
        /\ ret.op = "clockwise" =>
             /\ SignedArea2(control_vertices(ret.val), 1) < 0
             /\ ret.val = IF SignedArea2(control_vertices(path), 1) < 0
                          THEN path ELSE reversed(path)
        /\ ret.op = "counter_clockwise" =>
             /\ SignedArea2(control_vertices(ret.val), 1) > 0
             /\ ret.val = IF SignedArea2(control_vertices(path), 1) < 0
                          THEN reversed(path) ELSE path

\* clockwise() reversed a closed counter-clockwise Path.
C7_Witness ==
    /\ ret.op = "clockwise"
    /\ is_closed(path)
    /\ SignedArea2(control_vertices(path), 1) > 0
    /\ ret.val # path

\* The command of curve c: traversed as given, or from its end to its start.
CurveCmd(c, backwards) ==
    IF Len(c) = 4
    THEN IF backwards THEN Curve4To(c[1], c[3], c[2])
         ELSE Curve4To(c[4], c[2], c[3])
    ELSE IF backwards THEN Curve3To(c[1], c[2]) ELSE Curve3To(c[3], c[2])

IsCurve(cmd) == cmd.type # "LINE_TO"

\* The whole chain is taken backwards: the Path end is at the last curve's
\* end point.
Backwards(p, curves) ==
    LET c == curves[Len(curves)]
    IN isclose(end(p), c[Len(c)], DEFAULT_ABS_TOL)

\* C8: add_curves3 / add_curves4 with a non-empty list append the curves
\* from the last one to the first one, each from its end to its start,
\* exactly when the Path end is at the end point of the last curve (also
\* when it is at the first curve's start as well), and as given otherwise.
C8_ChainDirection ==
    (ret.op \in {"add_curves3", "add_curves4"} /\ ret.args # <<>>) =>
        LET curves == ret.args
            n == Len(curves)
            back == Backwards(ret.pre, curves)
        IN /\ path.start = ret.pre.start
           /\ SubSeq(path.commands, 1, len(ret.pre)) = ret.pre.commands
           /\ SelectSeq(Appended, IsCurve) =
                [i \in 1..n |->
                    IF back THEN CurveCmd(curves[n + 1 - i], TRUE)
                    ELSE CurveCmd(curves[i], FALSE)]

\* Two curves were added backwards although the first curve starts at the
\* Path end as well.
C8_Witness ==
    /\ ret.op = "add_curves4"
    /\ Len(ret.args) = 2
    /\ Backwards(ret.pre, ret.args)
    /\ isclose(end(ret.pre), ret.args[1][1], ABS_TOL)
    /\ ret.args[1][4] # ret.args[2][1]
    /\ len(ret.pre) = 1

\* The curves in the order and direction add_curves3 / add_curves4 take them.
Taken(p, curves) ==
    IF curves = <<>> THEN <<>>
    ELSE IF Backwards(p, curves)
    THEN [i \in 1..Len(curves) |-> Reverse(curves[Len(curves) + 1 - i])]
    ELSE curves

\* cmds is, for each curve in turn, a LineTo(curve start) exactly when the
\* curve does not start within tolerance of the running end, and the curve.
RECURSIVE Joined(_, _, _)
Joined(cmds, curves, running) ==
    IF curves = <<>> THEN cmds = <<>>
    ELSE LET c == Head(curves)
         IN IF isclose(c[1], running, ABS_TOL)
            THEN /\ Len(cmds) >= 1
                 /\ cmds[1] = CurveCmd(c, FALSE)
                 /\ Joined(Tail(cmds), Tail(curves), c[Len(c)])
            ELSE /\ Len(cmds) >= 2
                 /\ cmds[1] = LineTo(c[1])
                 /\ cmds[2] = CurveCmd(c, FALSE)
                 /\ Joined(Tail(Tail(cmds)), Tail(curves), c[Len(c)])

\* C9: add_curves3 / add_curves4 append, per curve taken, a LineTo to its
\* start exactly when it does not start within tolerance of the running end,
\* then the curve; so the first command appended is a line exactly when
\* neither end of the chain is close to the Path end; one curve far from the
\* end of a Path without commands gives [LineTo, Curve4To]; an empty list
\* changes nothing.
C9_ConnectingLines ==
    ret.op \in {"add_curves3", "add_curves4"} =>
        LET curves == ret.args
            n == Len(curves)
        IN /\ curves = <<>> => path = ret.pre
           /\ Joined(Appended, Taken(ret.pre, curves), end(ret.pre))
           /\ curves # <<>> =>
                (Appended[1].type = "LINE_TO" <=>
                    /\ ~isclose(end(ret.pre), curves[1][1], ABS_TOL)
                    /\ ~isclose(end(ret.pre), curves[n][Len(curves[n])],
                                DEFAULT_ABS_TOL))
           /\ (/\ ret.op = "add_curves4"
               /\ n = 1
               /\ ret.pre.commands = <<>>
               /\ ~isclose(ret.pre.start, curves[1][1], ABS_TOL)
               /\ ~isclose(ret.pre.start, curves[1][4], ABS_TOL)) =>
                path.commands =
                    <<LineTo(curves[1][1]),
                      Curve4To(curves[1][4], curves[1][2], curves[1][3])>>

\* Two curves were added, each after a connecting line.
C9_Witness ==
    /\ ret.op = "add_curves4"
    /\ Len(ret.args) = 2
    /\ Len(Appended) = 4
    /\ ~Backwards(ret.pre, ret.args)

\* C10: reversed() of a Path of n >= 1 commands starts at its end and holds
\* n commands; command i has the kind of command n+1-i and ends where command
\* n-i ends (at start for the last one); a Curve4To has ctrl1 and ctrl2
\* exchanged, a Curve3To keeps ctrl.  Without commands it has no commands.
C10_Reversed ==
    ret.op = "reversed" =>
        LET n == Len(path.commands)
            r == ret.val
        IN /\ Len(r.commands) = n
           /\ n >= 1 => r.start = path.commands[n].end
           /\ \A i \in 1..n :
                LET cmd == path.commands[n + 1 - i]
                    rev == r.commands[i]
                IN /\ rev.type = cmd.type
                   /\ rev.end = IF i < n THEN path.commands[n - i].end
                                ELSE path.start
                   /\ cmd.type = "CURVE4_TO" =>
                        rev.ctrl1 = cmd.ctrl2 /\ rev.ctrl2 = cmd.ctrl1
                   /\ cmd.type = "CURVE3_TO" => rev.ctrl = cmd.ctrl

\* A Path of a line, a quadratic and a cubic curve was reversed.
C10_Witness ==
    /\ ret.op = "reversed"
    /\ Len(path.commands) = 3
    /\ path.commands[1].type = "LINE_TO"
    /\ path.commands[2].type = "CURVE4_TO"
    /\ path.commands[3].type = "CURVE3_TO"
    /\ path.start # path.commands[3].end

\* The operations that return a Path, and the appends to either Path.
DerivingOps ==
    {"clone", "reversed", "clockwise", "counter_clockwise", "transform"}

ReceiverAppends ==
    {"line_to", "curve3_to", "curve4_to", "close", "add_curves3",
     "add_curves4", "add_2d_polyline", "add_ellipse", "add_spline"}

OtherAppends ==
    {"other.line_to", "other.curve3_to", "other.curve4_to", "other.close",
     "other.add_curves4"}

\* C11: clone, reversed, clockwise, counter_clockwise and transform leave
\* start and the commands of the receiver as they were; an append to the
\* Path they returned leaves the receiver as it was and an append to the
\* receiver leaves the returned Path as it was; transform returns as many
\* commands, of the same kinds in the same order, with every end mapped.
C11_Independent ==
    [][/\ ret'.op \in DerivingOps =>
            /\ path' = path
            /\ ~ret'.raised
            /\ derived'.start = ret'.val.start
            /\ derived'.commands = ret'.val.commands
       /\ ret'.op = "transform" =>
            LET t == ret'.val.commands
                m == ret'.args[1]
            IN /\ Len(t) = Len(path.commands)
               /\ ret'.val.start = m_transform(m, path.start)
               /\ \A i \in 1..Len(t) :
                    /\ t[i].type = path.commands[i].type
                    /\ t[i].end = m_transform(m, path.commands[i].end)
       /\ ret'.op \in OtherAppends =>
            /\ path' = path
            /\ derived'.start = derived.start
       /\ ret'.op \in ReceiverAppends =>
            /\ derived'.start = derived.start
            /\ derived'.commands = derived.commands]_vars

\* A clone of a Path of one command was appended to, and holds two.
C11_Witness ==
    /\ derived.by = "clone"
    /\ ret.op = "other.line_to"
    /\ Len(derived.commands) = 2
    /\ len(path) = 1
    /\ SubSeq(derived.commands, 1, 1) = path.commands

\* How many points command cmd adds to approximate(segments).
Yields(cmd, segments) == IF cmd.type = "LINE_TO" THEN 1 ELSE segments

\* How many points approximate(segments) yields up to command k included.
RECURSIVE UpTo(_, _, _)
UpTo(cmds, k, segments) ==
    IF k = 0 THEN 1
    ELSE UpTo(cmds, k - 1, segments) + Yields(cmds[k], segments)

\* The control points of command k of Path p, from where command k-1 ends.
ControlPoints(p, k) ==
    LET cmd == p.commands[k]
        from == IF k = 1 THEN p.start ELSE p.commands[k - 1].end
    IN IF cmd.type = "CURVE3_TO" THEN <<from, cmd.ctrl, cmd.end>>
       ELSE <<from, cmd.ctrl1, cmd.ctrl2, cmd.end>>

\* C12: approximate(segments) yields nothing on a Path without commands;
\* otherwise it yields 1 + L + C * segments points for L lines and C curves:
\* start, then for a line its end and for a curve the points at
\* t = 1/segments .. 1, the last of them its end.
C12_ApproximateCount ==
    ret.op = "approximate" =>
        LET segments == ret.args[1]
            cmds == path.commands
            L == Len(SelectSeq(cmds, LAMBDA c : c.type = "LINE_TO"))
            C == Len(SelectSeq(cmds, LAMBDA c : c.type # "LINE_TO"))
        IN /\ ~ret.raised
           /\ cmds = <<>> => ret.val = <<>>
           /\ cmds # <<>> =>
                /\ Len(ret.val) = 1 + L + C * segments
                /\ ret.val[1] = path.start
                /\ \A k \in 1..Len(cmds) :
                     LET at == UpTo(cmds, k - 1, segments)
                     IN IF cmds[k].type = "LINE_TO"
                        THEN ret.val[at + 1] = cmds[k].end
                        ELSE \A i \in 1..segments :
                               ret.val[at + i] =
                                 IF i = segments THEN cmds[k].end
                                 ELSE bezier_point(ControlPoints(path, k),
                                                   i, segments)

\* A line and a curve were approximated with two segments per curve.
C12_Witness ==
    /\ ret.op = "approximate"
    /\ ret.args[1] = 2
    /\ len(path) = 2
    /\ path.commands[1].type = "CURVE4_TO"
    /\ path.commands[2].type = "LINE_TO"
    /\ Len(ret.val) = 4

\* The lines from_vertices appends before closing.
Edges(vertices) ==
    [i \in 1..(Len(vertices) - 1) |-> LineTo(Vec3(vertices[i + 1]))]

\* C13 as stated: with k >= 2 vertices the closing LineTo(first vertex) is
\* appended exactly when close is true and the last vertex differs from the
\* first.
C13_ClosedWhenLastDiffers ==
    (ret.op = "from_vertices" /\ Len(ret.args[1]) >= 2) =>
        LET vertices == ret.args[1]
            first == Vec3(vertices[1])
            last == Vec3(vertices[Len(vertices)])
        IN path.commands =
             IF ret.args[2] /\ last # first
             THEN Append(Edges(vertices), LineTo(first))
             ELSE Edges(vertices)

\* C13 as amended: with k >= 2 vertices the Path starts at the first vertex
\* and holds the k-1 lines to the other vertices in order, and one more
\* LineTo(first vertex) exactly when close is true and the last vertex is
\* further than the tolerance from the first on some axis; with fewer than
\* 2 vertices it is Path(): no commands, start at the origin.
C13_FromVertices ==
    ret.op = "from_vertices" =>
        LET vertices == ret.args[1]
            k == Len(vertices)
        IN IF k < 2 THEN path = Path(NULLVEC)
           ELSE LET first == Vec3(vertices[1])
                    last == Vec3(vertices[k])
                    far == \E a \in 1..3 :
                              Abs(first[a] - last[a]) > DEFAULT_ABS_TOL
                IN /\ path.start = first
                   /\ path.commands =
                        IF ret.args[2] /\ far
                        THEN Append(Edges(vertices), LineTo(first))
                        ELSE Edges(vertices)

\* Three vertices, the last of them far from the first: closed by a line.
C13_Witness ==
    /\ ret.op = "from_vertices"
    /\ ret.args[2]
    /\ Len(ret.args[1]) = 3
    /\ Len(path.commands) = 3
    /\ path.commands[3] = LineTo(path.start)
    /\ is_closed(path)

\* What a traversal of p yields when it is consumed alone.
Alone(p, how) ==
    CASE how.fn = "control_vertices" -> control_vertices(p)
      [] how.fn = "approximate" -> approximate(p, how.segments).points
      [] how.fn = "flattening" ->
           flattening(p, how.distance, how.segments).points

\* C14: each traversal of the Path has yielded, whatever the other
\* traversals have consumed meanwhile, the first points of what a traversal
\* consumed alone yields, and all of them once it is exhausted; so does a
\* traversal started after another one was exhausted.
C14_Traversals ==
    \A k \in 1..Len(traversals) :
        LET t == traversals[k]
            full == Alone(path, t.frame.how)
        IN /\ Len(t.out) <= Len(full)
           /\ t.out = SubSeq(full, 1, Len(t.out))
           /\ t.frame.pc = "done" => t.out = full

\* The second traversal was started and exhausted while the first one,
\* started before it, had yielded some of its points and not all.
C14_Witness ==
    /\ Len(traversals) = 2
    /\ traversals[2].frame.pc = "done"
    /\ Len(traversals[2].out) >= 3
    /\ traversals[1].frame.pc = "loop"
    /\ Len(traversals[1].out) >= 2
    /\ Len(traversals[1].out) < Len(Alone(path, traversals[1].frame.how))

\* C15: add_ellipse changes nothing when the span of the ellipse is below
\* 1e-9 in absolute value; otherwise start becomes the start point of the
\* ellipse when the Path holds no command and reset is true and stays as it
\* is when reset is false or the Path holds a command, and the curves of the
\* ellipse are appended by the rule of add_curves4 (taken backwards when the
\* end is at their end, a line to each curve that does not start at the
\* running end).
C15_AddEllipse ==
    ret.op = "add_ellipse" =>
        LET ellipse == ret.args[1]
            segments == ret.args[2]
            reset == ret.args[3]
            small == /\ ellipse.param_span < PARAM_SPAN_MIN
                     /\ ellipse.param_span > -PARAM_SPAN_MIN
            curves == cubic_bezier_from_ellipse(ellipse, segments)
            before == [start |-> path.start, commands |-> ret.pre.commands]
        IN /\ ~ret.raised
           /\ small => path = ret.pre
           /\ ~small =>
                /\ path.start = IF ret.pre.commands = <<>> /\ reset
                                THEN ellipse.start_point
                                ELSE ret.pre.start
                /\ SubSeq(path.commands, 1, len(ret.pre)) = ret.pre.commands
                /\ Len(curves) = segments
                /\ Joined(Appended, Taken(before, curves), end(before))

\* An ellipse was added with reset false to a Path without commands that
\* starts far from it: start is kept and a line leads to the ellipse.
C15_Witness ==
    /\ ret.op = "add_ellipse"
    /\ ~ret.args[3]
    /\ ret.args[1].param_span = -20
    /\ ret.pre.commands = <<>>
    /\ path.start # ret.args[1].start_point
    /\ Len(Appended) = 3
    /\ Appended[1] = LineTo(ret.args[1].start_point)

\* A run of cubic curve commands.
Arc == [type |-> "ARC", end |-> NULLVEC]

\* The commands with every run of Curve4To commands taken as one Arc.
RECURSIVE Shape(_)
Shape(cmds) ==
    IF cmds = <<>> THEN <<>>
    ELSE LET rest == Shape(Tail(cmds))
         IN IF Head(cmds).type = "LINE_TO" THEN <<Head(cmds)>> \o rest
            ELSE IF Head(cmds).type # "CURVE4_TO"
            THEN <<[type |-> "OTHER", end |-> NULLVEC]>> \o rest
            ELSE IF rest # <<>> /\ Head(rest) = Arc THEN rest
            ELSE <<Arc>> \o rest

\* A point of the polyline in the world frame of polyline a.
World(a, v) ==
    IF a.ocs.transform \/ a.elevation # 0
    THEN ocs_to_wcs(a.ocs, replace_z(v, a.elevation))
    ELSE v

\* The vertex and the bulge of point i of polyline a.
Vertex(a, i) == <<a.points[i][1], a.points[i][2], 0>>
BulgeOf(a, i) ==
    IF a.points[i][3] < BULGE_MIN /\ a.points[i][3] > -BULGE_MIN THEN 0
    ELSE a.points[i][3]

\* What the claim gives for polyline a, where two points coincide when they
\* are within tol of each other on every axis: [shape, end] after the first
\* n vertices.
RECURSIVE Traced(_, _, _)
Traced(a, n, tol) ==
    IF n <= 1
    THEN [shape |-> <<>>, end |-> IF n = 1 THEN Vertex(a, 1) ELSE NULLVEC]
    ELSE LET t == Traced(a, n - 1, tol)
             v1 == Vertex(a, n - 1)
             v2 == Vertex(a, n)
         IN IF BulgeOf(a, n - 1) = 0
            THEN [shape |-> Append(t.shape, LineTo(World(a, v2))),
                  end |-> v2]
            ELSE IF isclose(v1, v2, tol) THEN t
            ELSE [shape |-> Append(t.shape, Arc), end |-> v2]

\* The same with the closing segment.
Closed(a, tol) ==
    LET n == Len(a.points)
        t == Traced(a, n, tol)
    IN IF n = 0 \/ ~a.close \/ isclose(Vertex(a, 1), t.end, tol) THEN t.shape
       ELSE IF BulgeOf(a, n) = 0
       THEN Append(t.shape, LineTo(World(a, Vertex(a, 1))))
       ELSE Append(t.shape, Arc)

\* A shape with every run of Arcs taken as one.
RECURSIVE Merged(_)
Merged(shape) ==
    IF shape = <<>> THEN <<>>
    ELSE LET rest == Merged(Tail(shape))
         IN IF Head(shape) = Arc /\ rest # <<>> /\ Head(rest) = Arc THEN rest
            ELSE <<Head(shape)>> \o rest

Kinds == {"LINE_TO", "CURVE3_TO", "CURVE4_TO"}

\* C17: after any sequence of the operations that make or change a Path,
\* every command of the Path and of the Path it returns is a LineTo, a
\* Curve3To or a Curve4To, and approximate, flattening and transform have
\* not raised.
C17_NoStartPath ==
    /\ \A i \in 1..Len(path.commands) : path.commands[i].type \in Kinds
    /\ ret.op \in DerivingOps =>
         \A i \in 1..Len(ret.val.commands) :
            ret.val.commands[i].type \in Kinds
    /\ ret.op \in {"approximate", "flattening", "transform"} => ~ret.raised

\* A Path of a line and curves that add_spline made was flattened.
C17_Witness ==
    /\ ret.op = "flattening"
    /\ ~ret.raised
    /\ Len(ret.val) >= 4
    /\ len(path) >= 3
    /\ path.commands[1].type = "LINE_TO"
    /\ path.commands[3].type = "CURVE4_TO"
    /\ mutated

\* How often tag t occurs in tags.
Count(tags, t) == Cardinality({i \in 1..Len(tags) : tags[i] = t})

\* The entities of tags from position i on, each from its head tag (code 0)
\* up to the next head tag.
RECURSIVE Entities(_, _)
Entities(tags, i) ==
    IF i > Len(tags) THEN <<>>
    ELSE LET later == {j \in (i + 1)..Len(tags) : tags[j].code = 0}
             next == IF later = {} THEN Len(tags) + 1
                     ELSE CHOOSE j \in later : \A k \in later : j <= k
         IN <<SubSeq(tags, i, next - 1)>> \o Entities(tags, next)

IsCoord(t) == t.code \in LINE_COORD_CODES

\* The coordinate codes of a 2D and of a 3D line, in order.
Order2D == <<10, 20, 11, 21>>
Order3D == <<10, 20, 30, 11, 21, 31>>

\* A LINE entity holding each coordinate of a 2D or of a 3D line once.
Fixable(entity) ==
    LET coords == SelectSeq(entity, IsCoord)
        order == IF Len(coords) = 4 THEN Order2D ELSE Order3D
    IN /\ entity[1] = DXFTag(0, "LINE")
       /\ Len(coords) \in {4, 6}
       /\ \A k \in 1..Len(order) :
            \E i \in 1..Len(coords) : coords[i].code = order[k]

\* The entity as the claim gives it: the coordinate tags in order where the
\* first of them was, every other tag in its place among the others.
InOrder(entity) ==
    IF ~Fixable(entity) THEN entity
    ELSE LET coords == SelectSeq(entity, IsCoord)
             order == IF Len(coords) = 4 THEN Order2D ELSE Order3D
             first == CHOOSE i \in 1..Len(entity) :
                         /\ IsCoord(entity[i])
                         /\ \A j \in 1..(i - 1) : ~IsCoord(entity[j])
             others == SelectSeq(SubSeq(entity, first, Len(entity)),
                                 LAMBDA t : ~IsCoord(t))
         IN SubSeq(entity, 1, first - 1)
              \o [k \in 1..Len(order) |->
                    coords[CHOOSE i \in 1..Len(coords) :
                              coords[i].code = order[k]]]
              \o others

RECURSIVE Flat(_)
Flat(seqs) == IF seqs = <<>> THEN <<>> ELSE Head(seqs) \o Flat(Tail(seqs))

\* The tags before the first entity, then every entity in order.
Expected(tags) ==
    LET heads == {i \in 1..Len(tags) : tags[i].code = 0}
        first == IF heads = {} THEN Len(tags) + 1
                 ELSE CHOOSE i \in heads : \A k \in heads : i <= k
        entities == Entities(tags, first)
    IN SubSeq(tags, 1, first - 1)
         \o Flat([e \in 1..Len(entities) |-> InOrder(entities[e])])

\* C18: fix_coordinates yields every tag of the stream as often as the
\* stream holds it, whatever tag the stream ends with; the tags outside
\* LINE entities are in the order of the stream, and in a LINE entity of 4
\* or 6 coordinate tags these are in the order 10, 20, (30), 11, 21, (31)
\* where the first of them was, the other tags in their order.
C18_EveryTagOnce ==
    ret.op = "fix_coordinates" =>
        LET tags == simple_tagger(ret.args[1])
        IN /\ Len(ret.val) = Len(tags)
           /\ \A i \in 1..Len(tags) :
                Count(ret.val, tags[i]) = Count(tags, tags[i])
           /\ (\A e \in 1..Len(Entities(tags, 1)) :
                 LET entity == Entities(tags, 1)[e]
                 IN (entity[1] = DXFTag(0, "LINE")
                     /\ Len(SelectSeq(entity, IsCoord)) \in {4, 6})
                       => Fixable(entity))
                => ret.val = Expected(tags)

====
